---- MODULE Spec2Model ----
(***************************************************************************)
(* Job queue and upload worker of server/upload.js: the jobs table, the    *)
(* create-job and stop-job handlers, the dispatcher tick                   *)
(* (checkAndProcessJobs) and the worker (processJob).                      *)
(*                                                                         *)
(* A worker step is one store statement together with the browser          *)
(* operations that follow it up to the next store statement: the browser   *)
(* session is private to the worker, so these commute with every other     *)
(* process.  The claim statement of the tick is split where PostgreSQL     *)
(* splits it: the sub-select takes the row lock (FOR UPDATE SKIP LOCKED),  *)
(* the UPDATE and the commit release it.  The click retry loop takes one    *)
(* step per attempt.  Variables local to processJob (i, isFirstImageOfJob, *)
(* attempt, the caught error) hold their initial value outside their       *)
(* scope.  A rejection that nothing handles may end the server process:    *)
(* from then on nothing of it runs.  Error messages, log entries and the   *)
(* interval field are texts, sequences of characters, so that what the     *)
(* code searches, lower-cases, parses and concatenates is computed.        *)
(***************************************************************************)
EXTENDS Integers, Sequences, FiniteSets, TLC

\* ------------------------------------------------------------------ bounds
MaxJobs == 2
MaxImages == 2
MaxInterval == 1
MaxPasses == 2
NumTicks == 2

\* the bound of the click retry loop
MaxAttempts == 10

JobIds == 1..MaxJobs
Ticks == 1..NumTicks

VARIABLES
    nextId,       \* next value of the SERIAL id column
    status,       \* jobs.status, "none" for an id with no row yet
    progress,     \* jobs.progress
    logs,         \* jobs.logs
    created_at,   \* jobs.created_at
    images,       \* jobs.images: the ordered sequence of image files
    settings,     \* jobs.settings: [interval, cycle]
    rowLock,      \* per tick: the row its claim statement holds locked, 0 for none
    wpc,          \* per job: position of its processJob invocation
    i,            \* processJob: loop index (0-based, as in the source)
    isFirstImageOfJob,
    browser,      \* processJob: "null", "open" or "closed"
    err,          \* processJob: message of the error caught, NoText for none
    pass,         \* number of full passes over images the worker has finished
    attempt,      \* processJob: loop variable of the click retry loop
    clickFault,   \* processJob: the error the last click of the loop met, NoText for none
    uploads,      \* history: image files handed to uploadFile, in order
    checks,       \* history: number of status re-reads
    unlinked,     \* history: image files handed to fs.unlink, in order
    closes,       \* history: number of browser.close() calls
    claims,       \* history: number of times the row was claimed
    stopped,      \* last stop-job request answered: [id, code]
    alive         \* the server process is running

jobRow == <<status, progress, logs>>
jobFixed == <<nextId, created_at, images, settings>>
workerLocal == <<i, isFirstImageOfJob, browser, err, pass, attempt, clickFault>>
history == <<uploads, checks, unlinked, closes>>
vars == <<nextId, status, progress, logs, created_at, images, settings, rowLock,
          wpc, i, isFirstImageOfJob, browser, err, pass, attempt, clickFault,
          uploads, checks, unlinked, closes, claims, stopped, alive>>

\* ------------------------------------------------------------ progress text
\* no text: the message of no error, the detail of a progress without one
NoText == <<>>

Msg(text, n) == [text |-> text, n |-> n, detail |-> NoText]

CreatedMsg == Msg("Job created and waiting to be processed.", 0)
StartingMsg == Msg("Starting job processing...", 0)
CancelledMsg == Msg("Job cancelled by user.", 0)
LoginMsg == Msg("Logging into portal...", 0)
ResetMsg(n) == Msg("Resetting page for image", n)
SelectDisplayMsg(n) == Msg("Selecting display for image", n)
UploadingMsg(n) == Msg("Uploading image", n)
WaitConfirmMsg == Msg("Waiting for upload confirmation...", 0)
WaitMsg(n) == Msg("Waiting for minute(s)", n)     \* n: the interval as submitted
CompletedMsg == Msg("All images uploaded successfully.", 0)

\* Texts are sequences of characters.
UpperCase == <<"A", "B", "C", "D", "E", "F", "G", "H", "I", "J", "K", "L", "M",
               "N", "O", "P", "Q", "R", "S", "T", "U", "V", "W", "X", "Y", "Z">>
LowerCase == <<"a", "b", "c", "d", "e", "f", "g", "h", "i", "j", "k", "l", "m",
               "n", "o", "p", "q", "r", "s", "t", "u", "v", "w", "x", "y", "z">>

\* String.prototype.toLowerCase
ToLowerCase(s) ==
    [k \in 1..Len(s) |->
       IF \E n \in 1..Len(UpperCase) : UpperCase[n] = s[k]
         THEN LowerCase[CHOOSE n \in 1..Len(UpperCase) : UpperCase[n] = s[k]]
         ELSE s[k]]

\* String.prototype.includes
Includes(s, t) == \E k \in 1..(Len(s) - Len(t) + 1) : SubSeq(s, k, k + Len(t) - 1) = t

\* error.message of the failures a worker can meet; the store and the browser
\* stand for every rejection of client.query and of a puppeteer call
StoreError ==
    <<"C", "o", "n", "n", "e", "c", "t", "i", "o", "n", " ", "t", "e", "r",
      "m", "i", "n", "a", "t", "e", "d", " ", "u", "n", "e", "x", "p", "e",
      "c", "t", "e", "d", "l", "y">>
BrowserError ==
    <<"N", "a", "v", "i", "g", "a", "t", "i", "o", "n", " ", "t", "i", "m",
      "e", "o", "u", "t", " ", "o", "f", " ", "3", "0", "0", "0", "0", " ",
      "m", "s", " ", "e", "x", "c", "e", "e", "d", "e", "d">>
\* 'The upload button was enabled but not clickable after 10 retries.'
ClickExhausted ==
    <<"T", "h", "e", " ", "u", "p", "l", "o", "a", "d", " ", "b", "u", "t",
      "t", "o", "n", " ", "w", "a", "s", " ", "e", "n", "a", "b", "l", "e",
      "d", " ", "b", "u", "t", " ", "n", "o", "t", " ", "c", "l", "i", "c",
      "k", "a", "b", "l", "e", " ", "a", "f", "t", "e", "r", " ", "1", "0",
      " ", "r", "e", "t", "r", "i", "e", "s", ".">>
\* 'Timed out waiting for a new confirmation entry in the status log.'
ConfirmTimeout ==
    <<"T", "i", "m", "e", "d", " ", "o", "u", "t", " ", "w", "a", "i", "t",
      "i", "n", "g", " ", "f", "o", "r", " ", "a", " ", "n", "e", "w", " ",
      "c", "o", "n", "f", "i", "r", "m", "a", "t", "i", "o", "n", " ", "e",
      "n", "t", "r", "y", " ", "i", "n", " ", "t", "h", "e", " ", "s", "t",
      "a", "t", "u", "s", " ", "l", "o", "g", ".">>
\* `The portal reported an error on the last log entry: "${lastLogEntry}"`,
\* lastLogEntry being the innerText of the entry in lower case
PortalError(l) ==
    <<"T", "h", "e", " ", "p", "o", "r", "t", "a", "l", " ", "r", "e", "p",
      "o", "r", "t", "e", "d", " ", "a", "n", " ", "e", "r", "r", "o", "r",
      " ", "o", "n", " ", "t", "h", "e", " ", "l", "a", "s", "t", " ", "l",
      "o", "g", " ", "e", "n", "t", "r", "y", ":", " ", "\"">>
      \o ToLowerCase(l) \o <<"\"">>
\* the message put in place of one that tells of a click
ClickHint ==
    <<"A", " ", "b", "u", "t", "t", "o", "n", " ", "o", "n", " ", "t", "h",
      "e", " ", "p", "a", "g", "e", " ", "w", "a", "s", " ", "n", "o", "t",
      " ", "c", "l", "i", "c", "k", "a", "b", "l", "e", ".", " ", "T", "h",
      "e", " ", "w", "e", "b", "s", "i", "t", "e", " ", "l", "a", "y", "o",
      "u", "t", " ", "m", "a", "y", " ", "h", "a", "v", "e", " ", "c", "h",
      "a", "n", "g", "e", "d", " ", "o", "r", " ", "a", "n", " ", "o", "v",
      "e", "r", "l", "a", "y", " ", "w", "a", "s", " ", "p", "r", "e", "s",
      "e", "n", "t", ".", " ", "(", "S", "e", "l", "e", "c", "t", "o", "r",
      ":", " ", "#", "p", "u", "s", "h", "B", "t", "n", "1", ")">>

\* error.message of a page.click that fails
ClickNotClickable ==
    <<"N", "o", "d", "e", " ", "i", "s", " ", "e", "i", "t", "h", "e", "r",
      " ", "n", "o", "t", " ", "c", "l", "i", "c", "k", "a", "b", "l", "e",
      " ", "o", "r", " ", "n", "o", "t", " ", "a", "n", " ", "E", "l", "e",
      "m", "e", "n", "t">>
ClickDetached ==
    <<"N", "o", "d", "e", " ", "i", "s", " ", "d", "e", "t", "a", "c", "h",
      "e", "d", " ", "f", "r", "o", "m", " ", "d", "o", "c", "u", "m", "e",
      "n", "t">>
ClickFaults == {ClickNotClickable, ClickDetached}

\* NotClickable taking every click error for a retryable one
NotClickableAnyError(m) == TRUE

\* e.message.includes('not clickable')
NotClickable(m) ==
    Includes(m, <<"n", "o", "t", " ", "c", "l", "i", "c", "k", "a", "b", "l", "e">>)

\* error.message.includes('click') || error.message.includes('clickable')
ContainsClick(m) ==
    \/ Includes(m, <<"c", "l", "i", "c", "k">>)
    \/ Includes(m, <<"c", "l", "i", "c", "k", "a", "b", "l", "e">>)

\* ErrorMessageFor with no message put in place of error.message
ErrorMessageAsThrown(m) == m

ErrorMessageFor(m) == IF ContainsClick(m) THEN ClickHint ELSE m

FailedMsg(m) == [text |-> "An error occurred: ", n |-> 0, detail |-> ErrorMessageFor(m)]

\* jobs.logs before any confirmation: NULL, no text
NoLogs == <<>>

\* what the last entry of the portal's status log can read
LogDone == <<"d", "o", "n", "e">>
LogFailed == <<"U", "p", "l", "o", "a", "d", " ", "F", "A", "I", "L", "E", "D">>
LogErrors ==
    <<"E", "r", "r", "o", "r", ":", " ", "c", "l", "i", "c", "k", " ", "R", "e", "t", "r", "y">>
LogTexts == {LogDone, LogFailed, LogErrors}

\* HasFailureKeyword without the toLowerCase of the entry
HasFailureKeywordAsWritten(l) ==
    \/ Includes(l, <<"f", "a", "i", "l", "e", "d">>)
    \/ Includes(l, <<"e", "r", "r", "o", "r">>)

\* lastLogEntry.includes('failed') || lastLogEntry.includes('error'), where
\* lastLogEntry is the innerText of the last entry in lower case
HasFailureKeyword(l) ==
    LET lastLogEntry == ToLowerCase(l) IN
    \/ Includes(lastLogEntry, <<"f", "a", "i", "l", "e", "d">>)
    \/ Includes(lastLogEntry, <<"e", "r", "r", "o", "r">>)

Terminal == {"completed", "failed", "cancelled"}

\* ------------------------------------------------------------ form fields
Digits == <<"0", "1", "2", "3", "4", "5", "6", "7", "8", "9">>

\* the decimal numeral of n, as a form field carries it
RECURSIVE NumeralOf(_)
NumeralOf(n) ==
    IF n < 10 THEN <<Digits[n + 1]>>
    ELSE Append(NumeralOf(n \div 10), Digits[(n % 10) + 1])

\* the interval field of a request: absent, or the numeral of a number of minutes
NoInterval == <<>>
IntervalTexts == {NoInterval} \cup {NumeralOf(n) : n \in 0..MaxInterval}

\* ------------------------------------------------------------------- Init
\* An empty jobs table whose id sequence stands at `first`.
InitAt(first) ==
    /\ nextId = first
    /\ status = [j \in JobIds |-> "none"]
    /\ progress = [j \in JobIds |-> Msg("", 0)]
    /\ logs = [j \in JobIds |-> NoLogs]
    /\ created_at = [j \in JobIds |-> 0]
    /\ images = [j \in JobIds |-> <<>>]
    /\ settings = [j \in JobIds |-> [interval |-> NoInterval, cycle |-> FALSE]]
    /\ rowLock = [t \in Ticks |-> 0]
    /\ wpc = [j \in JobIds |-> "none"]
    /\ i = [j \in JobIds |-> 0]
    /\ isFirstImageOfJob = [j \in JobIds |-> TRUE]
    /\ browser = [j \in JobIds |-> "null"]
    /\ err = [j \in JobIds |-> NoText]
    /\ pass = [j \in JobIds |-> 0]
    /\ attempt = [j \in JobIds |-> 0]
    /\ clickFault = [j \in JobIds |-> NoText]
    /\ uploads = [j \in JobIds |-> <<>>]
    /\ checks = [j \in JobIds |-> 0]
    /\ unlinked = [j \in JobIds |-> <<>>]
    /\ closes = [j \in JobIds |-> 0]
    /\ claims = [j \in JobIds |-> 0]
    /\ stopped = [id |-> 0, code |-> 0]
    /\ alive = TRUE

\* ------------------------------------------------- POST /api/create-job
ImageFiles(n) == [k \in 1..n |-> k]

\* n uploaded files, interval text iv and cycle cy in the request body
CreateJob(n, iv, cy) ==
    /\ alive
    /\ nextId <= MaxJobs
    /\ images' = [images EXCEPT ![nextId] = ImageFiles(n)]
    /\ settings' = [settings EXCEPT ![nextId] = [interval |-> iv, cycle |-> cy]]
    /\ status' = [status EXCEPT ![nextId] = "queued"]
    /\ progress' = [progress EXCEPT ![nextId] = CreatedMsg]
    /\ logs' = [logs EXCEPT ![nextId] = NoLogs]
    /\ created_at' = [created_at EXCEPT ![nextId] = nextId]
    /\ nextId' = nextId + 1
    /\ UNCHANGED <<rowLock, wpc, workerLocal, history, claims, stopped, alive>>

\* --------------------------------------------- POST /api/stop-job/:jobId
Locked(j) == \E t \in Ticks : rowLock[t] = j

\* StopJob with the status test of the WHERE clause left out
StopJobAnyStatus(j) ==
    /\ alive
    /\ ~Locked(j)
    /\ \/ /\ status[j] # "none"
          /\ status' = [status EXCEPT ![j] = "cancelled"]
          /\ progress' = [progress EXCEPT ![j] = CancelledMsg]
          /\ stopped' = [id |-> j, code |-> 200]
       \/ /\ status[j] = "none"
          /\ stopped' = [id |-> j, code |-> 404]
          /\ UNCHANGED <<status, progress>>
       \/ /\ stopped' = [id |-> j, code |-> 500]
          /\ UNCHANGED <<status, progress>>
    /\ UNCHANGED <<logs, jobFixed, rowLock, wpc, workerLocal, history, claims, alive>>

StopJob(j) ==
    /\ alive
    /\ ~Locked(j)          \* the UPDATE waits for a row lock held by a claim
    /\ \/ /\ status[j] \in {"running", "queued"}
          /\ status' = [status EXCEPT ![j] = "cancelled"]
          /\ progress' = [progress EXCEPT ![j] = CancelledMsg]
          /\ stopped' = [id |-> j, code |-> 200]
       \/ /\ status[j] \notin {"running", "queued"}
          /\ stopped' = [id |-> j, code |-> 404]
          /\ UNCHANGED <<status, progress>>
       \/ /\ stopped' = [id |-> j, code |-> 500]     \* the query throws
          /\ UNCHANGED <<status, progress>>
    /\ UNCHANGED <<logs, jobFixed, rowLock, wpc, workerLocal, history, claims, alive>>

\* ------------------------------------------------- checkAndProcessJobs
\* Candidates with FOR UPDATE SKIP LOCKED left out
CandidatesNoSkip(t) == {j \in JobIds : status[j] = "queued"}

\* Candidates with WHERE status = 'queued' left out
CandidatesAnyStatus(t) ==
    {j \in JobIds : status[j] # "none" /\ \A u \in Ticks \ {t} : rowLock[u] # j}

\* SELECT id FROM jobs WHERE status = 'queued' ORDER BY created_at ASC
\* FOR UPDATE SKIP LOCKED LIMIT 1, as run by tick t: 0 when no row qualifies.
Candidates(t) ==
    {j \in JobIds : status[j] = "queued" /\ \A u \in Ticks \ {t} : rowLock[u] # j}

\* Oldest with ORDER BY created_at DESC
Newest(S) == CHOOSE j \in S : \A k \in S : created_at[j] >= created_at[k]

Oldest(S) == CHOOSE j \in S : \A k \in S : created_at[j] <= created_at[k]

SelectForUpdate(t) == IF Candidates(t) = {} THEN 0 ELSE Oldest(Candidates(t))

\* TickSelect of a dispatcher that awaits processJob: no tick claims while a
\* worker runs
TickSelectAwaiting(t) ==
    /\ alive
    /\ rowLock[t] = 0
    /\ \A j \in JobIds : wpc[j] \in {"none", "returned", "threw"}
    /\ rowLock' = [rowLock EXCEPT ![t] = SelectForUpdate(t)]
    /\ UNCHANGED <<jobRow, jobFixed, wpc, workerLocal, history, claims, stopped, alive>>

\* The tick connects and its claim statement runs the sub-select, which locks
\* the row it returns.  With no row the UPDATE matches nothing and the tick ends.
TickSelect(t) ==
    /\ alive
    /\ rowLock[t] = 0
    /\ rowLock' = [rowLock EXCEPT ![t] = SelectForUpdate(t)]
    /\ UNCHANGED <<jobRow, jobFixed, wpc, workerLocal, history, claims, stopped, alive>>

\* TickClaim with the statement cut down to its sub-select: the row is locked
\* and released, and nothing is updated or started
TickClaimSelectOnly(t) ==
    /\ alive
    /\ rowLock[t] # 0
    /\ rowLock' = [rowLock EXCEPT ![t] = 0]
    /\ UNCHANGED <<jobRow, jobFixed, wpc, workerLocal, history, claims, stopped, alive>>

\* The UPDATE of the locked row, the commit, and processJob(rows[0]) started
\* without being awaited.
TickClaim(t) ==
    /\ alive
    /\ rowLock[t] # 0
    /\ LET j == rowLock[t] IN
         /\ status' = [status EXCEPT ![j] = "running"]
         /\ progress' = [progress EXCEPT ![j] = StartingMsg]
         /\ claims' = [claims EXCEPT ![j] = @ + 1]
         /\ wpc' = [wpc EXCEPT ![j] = "connect"]
    /\ rowLock' = [rowLock EXCEPT ![t] = 0]
    /\ UNCHANGED <<logs, jobFixed, workerLocal, history, stopped, alive>>

\* The claim statement fails inside the try block: the error is logged, the
\* statement rolled back, its row lock released, and no job is touched.
TickFail(t) ==
    /\ alive
    /\ rowLock' = [rowLock EXCEPT ![t] = 0]
    /\ UNCHANGED <<jobRow, jobFixed, wpc, workerLocal, history, claims, stopped, alive>>

\* const client = await pool.connect() rejects, outside the try block: the
\* promise of the tick rejects with no handler attached by setInterval.  The
\* runtime either only warns about it, or ends the process (the default since
\* Node 15); the connections of the process are then dropped, which rolls back
\* the claim statements in flight.
TickConnectFail(t) ==
    /\ alive
    /\ rowLock[t] = 0
    /\ \E exits \in BOOLEAN :
         /\ alive' = ~exits
         /\ rowLock' = IF exits THEN [u \in Ticks |-> 0] ELSE rowLock
    /\ UNCHANGED <<jobRow, jobFixed, wpc, workerLocal, history, claims, stopped>>

\* ------------------------------------------------------------ processJob
\* leaving the scope of the loop variables
LeaveLoop(j) ==
    /\ i' = [i EXCEPT ![j] = 0]
    /\ isFirstImageOfJob' = [isFirstImageOfJob EXCEPT ![j] = TRUE]

\* an error thrown inside the try block
Throw(j, m) ==
    /\ wpc' = [wpc EXCEPT ![j] = "catch"]
    /\ err' = [err EXCEPT ![j] = m]
    /\ LeaveLoop(j)

\* the next statement, inside the loop
Goto(j, pc) ==
    /\ wpc' = [wpc EXCEPT ![j] = pc]
    /\ UNCHANGED <<err, i, isFirstImageOfJob>>

SetProgress(j, m) == progress' = [progress EXCEPT ![j] = m]

\* const client = await pool.connect(), outside the try block
WConnect(j) ==
    /\ alive
    /\ wpc[j] = "connect"
    /\ \/ wpc' = [wpc EXCEPT ![j] = "login"]
       \/ wpc' = [wpc EXCEPT ![j] = "threw"]
    /\ UNCHANGED <<jobRow, jobFixed, rowLock, workerLocal, history, claims, stopped, alive>>

\* WLogin trying again after a navigation or login that failed
WLoginRetrying(j) ==
    /\ alive
    /\ wpc[j] = "login"
    /\ \/ /\ Throw(j, StoreError)
          /\ UNCHANGED <<progress, browser>>
       \/ /\ SetProgress(j, LoginMsg)
          /\ Throw(j, BrowserError)
          /\ UNCHANGED browser
       \/ /\ SetProgress(j, LoginMsg)
          /\ browser' = [browser EXCEPT ![j] = "open"]
          /\ Goto(j, "login")
       \/ /\ SetProgress(j, LoginMsg)
          /\ browser' = [browser EXCEPT ![j] = "open"]
          /\ Goto(j, "check")
    /\ UNCHANGED <<status, logs, jobFixed, rowLock, pass, history, claims, stopped, alive, attempt, clickFault>>

\* progress 'Logging into portal...', puppeteer.launch, login
WLogin(j) ==
    /\ alive
    /\ wpc[j] = "login"
    /\ \/ /\ Throw(j, StoreError)
          /\ UNCHANGED <<progress, browser>>
       \/ /\ SetProgress(j, LoginMsg)
          /\ Throw(j, BrowserError)                 \* launch fails
          /\ UNCHANGED browser
       \/ /\ SetProgress(j, LoginMsg)
          /\ browser' = [browser EXCEPT ![j] = "open"]
          /\ Throw(j, BrowserError)                 \* navigation or login fails
       \/ /\ SetProgress(j, LoginMsg)
          /\ browser' = [browser EXCEPT ![j] = "open"]
          /\ Goto(j, "check")
    /\ UNCHANGED <<status, logs, jobFixed, rowLock, pass, history, claims, stopped, alive, attempt, clickFault>>

\* WCheck looking at the status it read only before the first image of the job
WCheckFirstOnly(j) ==
    /\ alive
    /\ wpc[j] = "check"
    /\ \/ /\ Throw(j, StoreError)
          /\ UNCHANGED checks
       \/ /\ checks' = [checks EXCEPT ![j] = @ + 1]
          /\ IF status[j] # "running" /\ isFirstImageOfJob[j]
               THEN /\ wpc' = [wpc EXCEPT ![j] = "finally"]
                    /\ LeaveLoop(j)
                    /\ UNCHANGED err
               ELSE Goto(j, IF isFirstImageOfJob[j] THEN "select" ELSE "reset")
    /\ UNCHANGED <<jobRow, jobFixed, rowLock, browser, pass,
                   uploads, unlinked, closes, claims, stopped, alive, attempt, clickFault>>

\* WCheck treating a status other than 'running' as an error of the job
WCheckThrowing(j) ==
    /\ alive
    /\ wpc[j] = "check"
    /\ \/ /\ Throw(j, StoreError)
          /\ UNCHANGED checks
       \/ /\ checks' = [checks EXCEPT ![j] = @ + 1]
          /\ IF status[j] # "running"
               THEN Throw(j, BrowserError)
               ELSE Goto(j, IF isFirstImageOfJob[j] THEN "select" ELSE "reset")
    /\ UNCHANGED <<jobRow, jobFixed, rowLock, browser, pass,
                   uploads, unlinked, closes, claims, stopped, alive, attempt, clickFault>>

\* WCheck testing the status of the record handed over by the tick, which
\* stays 'running', instead of the row re-read
WCheckStale(j) ==
    /\ alive
    /\ wpc[j] = "check"
    /\ \/ /\ Throw(j, StoreError)
          /\ UNCHANGED checks
       \/ /\ checks' = [checks EXCEPT ![j] = @ + 1]
          /\ Goto(j, IF isFirstImageOfJob[j] THEN "select" ELSE "reset")
    /\ UNCHANGED <<jobRow, jobFixed, rowLock, browser, pass,
                   uploads, unlinked, closes, claims, stopped, alive, attempt, clickFault>>

\* the status re-read at the top of an image iteration
WCheck(j) ==
    /\ alive
    /\ wpc[j] = "check"
    /\ \/ /\ Throw(j, StoreError)
          /\ UNCHANGED checks
       \/ /\ checks' = [checks EXCEPT ![j] = @ + 1]
          /\ IF status[j] # "running"
               THEN /\ wpc' = [wpc EXCEPT ![j] = "finally"]      \* return
                    /\ LeaveLoop(j)
                    /\ UNCHANGED err
               ELSE Goto(j, IF isFirstImageOfJob[j] THEN "select" ELSE "reset")
    /\ UNCHANGED <<jobRow, jobFixed, rowLock, browser, pass,
                   uploads, unlinked, closes, claims, stopped, alive, attempt, clickFault>>

WReset(j) ==
    /\ alive
    /\ wpc[j] = "reset"
    /\ \/ /\ Throw(j, StoreError)
          /\ UNCHANGED progress
       \/ /\ SetProgress(j, ResetMsg(i[j] + 1))
          /\ \/ Throw(j, BrowserError)
             \/ Goto(j, "select")
    /\ UNCHANGED <<status, logs, jobFixed, rowLock, browser, pass,
                   history, claims, stopped, alive, attempt, clickFault>>

WSelect(j) ==
    /\ alive
    /\ wpc[j] = "select"
    /\ \/ /\ Throw(j, StoreError)
          /\ UNCHANGED progress
       \/ /\ SetProgress(j, SelectDisplayMsg(i[j] + 1))
          /\ \/ Throw(j, BrowserError)
             \/ /\ wpc' = [wpc EXCEPT ![j] = "upload"]
                /\ isFirstImageOfJob' = [isFirstImageOfJob EXCEPT ![j] = FALSE]
                /\ UNCHANGED <<err, i>>
    /\ UNCHANGED <<status, logs, jobFixed, rowLock, browser, pass,
                   history, claims, stopped, alive, attempt, clickFault>>

\* WUpload with images[0] in place of images[i]
WUploadFirst(j) ==
    /\ alive
    /\ wpc[j] = "upload"
    /\ \/ /\ Throw(j, StoreError)
          /\ UNCHANGED <<progress, uploads>>
       \/ /\ SetProgress(j, UploadingMsg(i[j] + 1))
          /\ uploads' = [uploads EXCEPT ![j] = Append(@, images[j][1])]
          /\ \/ Throw(j, BrowserError)
             \/ Goto(j, "click")
    /\ UNCHANGED <<status, logs, jobFixed, rowLock, browser, pass,
                   checks, unlinked, closes, claims, stopped, alive, attempt, clickFault>>

\* progress 'Uploading image ...', fileInput.uploadFile(image.path), wait for
\* the submit button to become enabled
WUpload(j) ==
    /\ alive
    /\ wpc[j] = "upload"
    /\ \/ /\ Throw(j, StoreError)
          /\ UNCHANGED <<progress, uploads>>
       \/ /\ SetProgress(j, UploadingMsg(i[j] + 1))
          /\ Throw(j, BrowserError)                 \* no file input
          /\ UNCHANGED uploads
       \/ /\ SetProgress(j, UploadingMsg(i[j] + 1))
          /\ uploads' = [uploads EXCEPT ![j] = Append(@, images[j][i[j] + 1])]
          /\ \/ Throw(j, BrowserError)
             \/ Goto(j, "click")
    /\ UNCHANGED <<status, logs, jobFixed, rowLock, browser, pass,
                   checks, unlinked, closes, claims, stopped, alive, attempt, clickFault>>

\* MoreAttempts letting the loop run once more
MoreAttemptsOneMore(a) == a <= MaxAttempts

\* the condition of the click retry loop
MoreAttempts(a) == a < MaxAttempts

\* One attempt of the click retry loop, page.click(UPLOAD_SUBMIT_BUTTON_SELECTOR),
\* meeting fault f (NoText for a click that succeeds): success leaves the loop;
\* 'not clickable' sleeps one second and comes back for the next attempt, or
\* throws once the loop has run out; any other error is thrown on.
WClick(j) ==
    /\ alive
    /\ wpc[j] = "click"
    /\ \E f \in ClickFaults \cup {NoText} :
         IF f = NoText
           THEN /\ Goto(j, "confirm")
                /\ attempt' = [attempt EXCEPT ![j] = 0]
                /\ clickFault' = [clickFault EXCEPT ![j] = NoText]
           ELSE /\ clickFault' = [clickFault EXCEPT ![j] = f]
                /\ IF NotClickable(f)
                     THEN /\ attempt' = [attempt EXCEPT ![j] = @ + 1]
                          /\ IF MoreAttempts(attempt[j] + 1)
                               THEN Goto(j, "click")
                               ELSE Throw(j, ClickExhausted)
                     ELSE /\ Throw(j, f)
                          /\ UNCHANGED attempt
    /\ UNCHANGED <<jobRow, jobFixed, rowLock, browser, pass, history, claims, stopped, alive>>

\* WConfirm without the .catch that turns the rejection of the wait into the
\* timeout error
WConfirmRawError(j) ==
    /\ alive
    /\ wpc[j] = "confirm"
    /\ \/ /\ Throw(j, StoreError)
          /\ UNCHANGED progress
       \/ /\ SetProgress(j, WaitConfirmMsg)
          /\ \/ Throw(j, BrowserError)
             \/ Goto(j, "savelogs")
    /\ UNCHANGED <<status, logs, jobFixed, rowLock, browser, pass,
                   attempt, clickFault, history, claims, stopped, alive>>

\* progress 'Waiting for upload confirmation...', then the wait for a new entry
WConfirm(j) ==
    /\ alive
    /\ wpc[j] = "confirm"
    /\ \/ /\ Throw(j, StoreError)
          /\ UNCHANGED progress
       \/ /\ SetProgress(j, WaitConfirmMsg)
          /\ \/ Throw(j, ConfirmTimeout)
             \/ Goto(j, "savelogs")
    /\ UNCHANGED <<status, logs, jobFixed, rowLock, browser, pass,
                   attempt, clickFault, history, claims, stopped, alive>>

\* WSaveLogs inspecting the last entry before the text is saved
WSaveLogsAfterInspection(j) ==
    /\ alive
    /\ wpc[j] = "savelogs"
    /\ \/ /\ \E m \in {BrowserError, StoreError} : Throw(j, m)
          /\ UNCHANGED logs
       \/ \E l \in LogTexts :
            IF HasFailureKeyword(l)
              THEN /\ Throw(j, PortalError(l))
                   /\ UNCHANGED logs
              ELSE /\ logs' = [logs EXCEPT ![j] = l]
                   /\ \/ Throw(j, BrowserError)
                      \/ Goto(j, "interval")
    /\ UNCHANGED <<status, progress, jobFixed, rowLock, browser, pass,
                   history, claims, stopped, alive, attempt, clickFault>>

\* logs captured and saved, then the last entry inspected
WSaveLogs(j) ==
    /\ alive
    /\ wpc[j] = "savelogs"
    /\ \/ /\ \E m \in {BrowserError, StoreError} : Throw(j, m)
          /\ UNCHANGED logs
       \/ \E l \in LogTexts :
            /\ logs' = [logs EXCEPT ![j] = l]
            /\ IF HasFailureKeyword(l)
                 THEN Throw(j, PortalError(l))
                 ELSE \/ Throw(j, BrowserError)
                      \/ Goto(j, "interval")
    /\ UNCHANGED <<status, progress, jobFixed, rowLock, browser, pass,
                   history, claims, stopped, alive, attempt, clickFault>>

\* Advance with the while (settings.cycle) of the do loop left out
AdvanceOnce(j) ==
    /\ UNCHANGED err
    /\ IF i[j] + 1 < Len(images[j])
         THEN /\ i' = [i EXCEPT ![j] = @ + 1]
              /\ wpc' = [wpc EXCEPT ![j] = "check"]
              /\ UNCHANGED <<pass, isFirstImageOfJob>>
         ELSE /\ pass' = [pass EXCEPT ![j] = @ + 1]
              /\ wpc' = [wpc EXCEPT ![j] = "complete"]
              /\ LeaveLoop(j)

\* i++ of the for loop, and the while (settings.cycle) of the do loop; a cycling
\* job is followed through MaxPasses passes, and into the status re-read after
\* them once it is no longer running
Advance(j) ==
    /\ UNCHANGED err
    /\ IF i[j] + 1 < Len(images[j])
         THEN /\ i' = [i EXCEPT ![j] = @ + 1]
              /\ wpc' = [wpc EXCEPT ![j] = "check"]
              /\ UNCHANGED <<pass, isFirstImageOfJob>>
         ELSE /\ pass' = [pass EXCEPT ![j] = @ + 1]
              /\ IF settings[j].cycle
                   THEN /\ pass[j] + 1 < MaxPasses \/ status[j] # "running"
                        /\ i' = [i EXCEPT ![j] = 0]
                        /\ wpc' = [wpc EXCEPT ![j] = "check"]
                        /\ UNCHANGED isFirstImageOfJob
                   ELSE /\ wpc' = [wpc EXCEPT ![j] = "complete"]
                        /\ LeaveLoop(j)

IsDigit(c) == \E d \in 1..Len(Digits) : Digits[d] = c

DigitValue(c) == (CHOOSE d \in 1..Len(Digits) : Digits[d] = c) - 1

\* parseInt(s, 10) for a text without sign or leading blanks: the value of its
\* leading digits as <<value>>, and <<>> (NaN) when it does not start with a digit
RECURSIVE ParseDigits(_, _, _)
ParseDigits(s, k, acc) ==
    IF k <= Len(s) /\ IsDigit(s[k])
      THEN ParseDigits(s, k + 1, acc * 10 + DigitValue(s[k]))
      ELSE acc

ParseInt(s) == IF s # <<>> /\ IsDigit(s[1]) THEN <<ParseDigits(s, 1, 0)>> ELSE <<>>

\* (parseInt(settings.interval, 10) || 0) * 60 * 1000
WaitTime(j) ==
    LET parsed == ParseInt(settings[j].interval) IN
    (IF parsed = <<>> THEN 0 ELSE parsed[1]) * 60 * 1000

\* WInterval with the test of settings.cycle left out
WIntervalNoCycle(j) ==
    /\ alive
    /\ wpc[j] = "interval"
    /\ IF WaitTime(j) > 0 /\ i[j] < Len(images[j]) - 1
         THEN \/ /\ Throw(j, StoreError)
                 /\ UNCHANGED <<progress, pass>>
              \/ /\ SetProgress(j, WaitMsg(WaitTime(j) \div 60000))
                 /\ Goto(j, "sleep")
                 /\ UNCHANGED pass
         ELSE /\ Advance(j)
              /\ UNCHANGED progress
    /\ UNCHANGED <<status, logs, jobFixed, rowLock, browser, history, claims, stopped, alive, attempt, clickFault>>

\* WInterval waiting after the last image as well
WIntervalAfterLast(j) ==
    /\ alive
    /\ wpc[j] = "interval"
    /\ IF WaitTime(j) > 0
         THEN \/ /\ Throw(j, StoreError)
                 /\ UNCHANGED <<progress, pass>>
              \/ /\ SetProgress(j, WaitMsg(WaitTime(j) \div 60000))
                 /\ Goto(j, "sleep")
                 /\ UNCHANGED pass
         ELSE /\ Advance(j)
              /\ UNCHANGED progress
    /\ UNCHANGED <<status, logs, jobFixed, rowLock, browser, history, claims, stopped, alive, attempt, clickFault>>

WInterval(j) ==
    /\ alive
    /\ wpc[j] = "interval"
    /\ IF WaitTime(j) > 0 /\ (i[j] < Len(images[j]) - 1 \/ settings[j].cycle)
         THEN \/ /\ Throw(j, StoreError)
                 /\ UNCHANGED <<progress, pass>>
              \/ /\ SetProgress(j, WaitMsg(WaitTime(j) \div 60000))
                 /\ Goto(j, "sleep")
                 /\ UNCHANGED pass
         ELSE /\ Advance(j)
              /\ UNCHANGED progress
    /\ UNCHANGED <<status, logs, jobFixed, rowLock, browser, history, claims, stopped, alive, attempt, clickFault>>

\* WSleep cut short when the job is no longer 'running'
WSleepInterruptible(j) ==
    /\ alive
    /\ wpc[j] = "sleep"
    /\ IF status[j] # "running"
         THEN /\ wpc' = [wpc EXCEPT ![j] = "finally"]
              /\ LeaveLoop(j)
              /\ UNCHANGED <<err, pass>>
         ELSE Advance(j)
    /\ UNCHANGED <<jobRow, jobFixed, rowLock, browser, history, claims, stopped, alive, attempt, clickFault>>

WSleep(j) ==
    /\ alive
    /\ wpc[j] = "sleep"
    /\ Advance(j)
    /\ UNCHANGED <<jobRow, jobFixed, rowLock, browser, history, claims, stopped, alive, attempt, clickFault>>

\* WComplete with the progress left out of its UPDATE
WCompleteStatusOnly(j) ==
    /\ alive
    /\ wpc[j] = "complete"
    /\ \/ /\ Throw(j, StoreError)
          /\ UNCHANGED <<status, progress>>
       \/ /\ status' = [status EXCEPT ![j] = "completed"]
          /\ Goto(j, "finally")
          /\ UNCHANGED progress
    /\ UNCHANGED <<logs, jobFixed, rowLock, browser, pass, history, claims, stopped, alive, attempt, clickFault>>

WComplete(j) ==
    /\ alive
    /\ wpc[j] = "complete"
    /\ \/ /\ Throw(j, StoreError)
          /\ UNCHANGED <<status, progress>>
       \/ /\ status' = [status EXCEPT ![j] = "completed"]
          /\ SetProgress(j, CompletedMsg)
          /\ Goto(j, "finally")
    /\ UNCHANGED <<logs, jobFixed, rowLock, browser, pass, history, claims, stopped, alive, attempt, clickFault>>

\* WCatch with the WHERE id = $1 of its UPDATE left out
WCatchEveryJob(j) ==
    /\ alive
    /\ wpc[j] = "catch"
    /\ \/ /\ status' = [k \in JobIds |-> IF status[k] = "none" THEN "none" ELSE "failed"]
          /\ progress' = [k \in JobIds |->
                            IF status[k] = "none" THEN progress[k] ELSE FailedMsg(err[j])]
          /\ wpc' = [wpc EXCEPT ![j] = "finally"]
       \/ /\ wpc' = [wpc EXCEPT ![j] = "finally_throw"]
          /\ UNCHANGED <<status, progress>>
    /\ err' = [err EXCEPT ![j] = NoText]
    /\ attempt' = [attempt EXCEPT ![j] = 0]
    /\ clickFault' = [clickFault EXCEPT ![j] = NoText]
    /\ UNCHANGED <<logs, jobFixed, rowLock, i, isFirstImageOfJob, browser, pass,
                   history, claims, stopped, alive>>

\* the catch block: status 'failed'; when this write fails too, the error
\* leaves processJob after the finally block
WCatch(j) ==
    /\ alive
    /\ wpc[j] = "catch"
    /\ \/ /\ status' = [status EXCEPT ![j] = "failed"]
          /\ SetProgress(j, FailedMsg(err[j]))
          /\ wpc' = [wpc EXCEPT ![j] = "finally"]
       \/ /\ wpc' = [wpc EXCEPT ![j] = "finally_throw"]
          /\ UNCHANGED <<status, progress>>
    /\ err' = [err EXCEPT ![j] = NoText]
    /\ attempt' = [attempt EXCEPT ![j] = 0]
    /\ clickFault' = [clickFault EXCEPT ![j] = NoText]
    /\ UNCHANGED <<logs, jobFixed, rowLock, i, isFirstImageOfJob, browser, pass,
                   history, claims, stopped, alive>>

\* WFinally with browser.close() left out
WFinallyNoClose(j) ==
    /\ alive
    /\ wpc[j] \in {"finally", "finally_throw"}
    /\ unlinked' = [unlinked EXCEPT ![j] = @ \o images[j]]
    /\ wpc' = [wpc EXCEPT ![j] = IF wpc[j] = "finally" THEN "returned" ELSE "threw"]
    /\ UNCHANGED <<jobRow, jobFixed, rowLock, i, isFirstImageOfJob, err, pass,
                   uploads, checks, closes, browser, claims, stopped, alive, attempt, clickFault>>

\* the finally block: browser.close() when a browser was launched, then
\* fs.unlink of every image and client.release(); a close that throws skips both
\* (the session is taken to be gone once close() was called, also when it rejects)
WFinally(j) ==
    /\ alive
    /\ wpc[j] \in {"finally", "finally_throw"}
    /\ LET done == IF wpc[j] = "finally" THEN "returned" ELSE "threw" IN
       IF browser[j] = "open"
         THEN /\ closes' = [closes EXCEPT ![j] = @ + 1]
              /\ browser' = [browser EXCEPT ![j] = "closed"]
              /\ \/ /\ unlinked' = [unlinked EXCEPT ![j] = @ \o images[j]]
                    /\ wpc' = [wpc EXCEPT ![j] = done]
                 \/ /\ wpc' = [wpc EXCEPT ![j] = "threw"]
                    /\ UNCHANGED unlinked
         ELSE /\ unlinked' = [unlinked EXCEPT ![j] = @ \o images[j]]
              /\ wpc' = [wpc EXCEPT ![j] = done]
              /\ UNCHANGED <<closes, browser>>
    /\ UNCHANGED <<jobRow, jobFixed, rowLock, i, isFirstImageOfJob, err, pass,
                   uploads, checks, claims, stopped, alive, attempt, clickFault>>

Worker(j) ==
    \/ WConnect(j) \/ WLogin(j) \/ WCheck(j) \/ WReset(j) \/ WSelect(j)
    \/ WUpload(j) \/ WClick(j) \/ WConfirm(j) \/ WSaveLogs(j) \/ WInterval(j)
    \/ WSleep(j) \/ WComplete(j) \/ WCatch(j) \/ WFinally(j)

\* --------------------------------------------------------- specifications
Dispatch ==
    \/ \E j \in JobIds : StopJob(j)
    \/ \E t \in Ticks : TickSelect(t) \/ TickClaim(t) \/ TickFail(t)
    \/ \E j \in JobIds : Worker(j)

\* One job, of any shape: the id sequence stands at its last value.
Init == InitAt(MaxJobs)

Next ==
    \/ \E n \in 1..MaxImages, iv \in IntervalTexts, cy \in BOOLEAN : CreateJob(n, iv, cy)
    \/ Dispatch
    \/ \E t \in Ticks : TickConnectFail(t)

Spec == Init /\ [][Next]_vars

\* The same server with the event loop running every worker that has a step to
\* take: each await of processJob resolves, rejects or times out.
SpecFair == Spec /\ \A j \in JobIds : WF_vars(Worker(j))

\* Up to MaxJobs jobs, each of MaxImages images, run once with an interval, on
\* a server whose ticks always get their connection.
InitQueue == InitAt(1)

NextQueue ==
    \/ CreateJob(MaxImages, NumeralOf(MaxInterval), FALSE)
    \/ Dispatch

SpecQueue == InitQueue /\ [][NextQueue]_vars

\* The dispatcher and the requests, the workers it starts not followed, on a
\* server whose ticks always get their connection: setInterval keeps the ticks
\* coming, and the claim statement of a tick does not fail every time.
InitDispatch == InitAt(1)

NextDispatch ==
    \/ \E n \in 1..MaxImages, iv \in IntervalTexts, cy \in BOOLEAN : CreateJob(n, iv, cy)
    \/ \E j \in JobIds : StopJob(j)
    \/ \E t \in Ticks : TickSelect(t) \/ TickClaim(t) \/ TickFail(t)

SpecDispatch ==
    /\ InitDispatch /\ [][NextDispatch]_vars
    /\ \A t \in Ticks : SF_vars(TickSelect(t)) /\ SF_vars(TickClaim(t))

\* ------------------------------------------------------------------ claims
Ended(j) == wpc[j] \in {"returned", "threw"}

\* C1: every change of a job's status is a forward move of the state machine:
\* creation, queued -> running, queued -> cancelled, running -> completed,
\* failed or cancelled.
Forward ==
    {<<"none", "queued">>, <<"queued", "running">>, <<"queued", "cancelled">>,
     <<"running", "completed">>, <<"running", "failed">>, <<"running", "cancelled">>}

C1_StatusForward ==
    [][\A j \in JobIds :
         status'[j] # status[j] => <<status[j], status'[j]>> \in Forward]_vars

\* C2: no row is locked by two claim statements at once, and every job is
\* claimed at most once, from queued to running.
C2_ClaimedOnce ==
    /\ [](\A j \in JobIds :
            /\ claims[j] <= 1
            /\ \A t, u \in Ticks : rowLock[t] = j /\ rowLock[u] = j => t = u)
    /\ [][\A j \in JobIds :
            claims'[j] # claims[j] =>
               /\ claims'[j] = claims[j] + 1
               /\ status[j] = "queued" /\ status'[j] = "running"
               /\ wpc[j] = "none" /\ wpc'[j] = "connect"]_vars

\* two ticks are inside their claim statements at once: the second skipped the
\* older row, which the first holds, and locked the next
C2_Witness ==
    \E t, u \in Ticks :
      /\ t # u /\ rowLock[t] # 0 /\ rowLock[u] # 0
      /\ created_at[rowLock[t]] < created_at[rowLock[u]]

\* C3: once a job's status is cancelled it stays cancelled.
C3_CancelledStays ==
    [][\A j \in JobIds : status[j] = "cancelled" => status'[j] = "cancelled"]_vars

\* C4: a stop request cancels a job only from queued or running, answering 200;
\* for a job that is terminal or does not exist it changes no field of any job
\* and answers 404; a request whose query throws changes nothing either.
C4_StopJob ==
    [][/\ \A j \in JobIds :
            status'[j] = "cancelled" /\ status[j] # "cancelled" =>
               /\ status[j] \in {"queued", "running"}
               /\ stopped' = [id |-> j, code |-> 200]
       /\ stopped' # stopped =>
            LET j == stopped'.id IN
            /\ \A k \in JobIds \ {j} : status'[k] = status[k] /\ progress'[k] = progress[k]
            /\ logs' = logs
            /\ stopped'.code = 200 =>
                 /\ status[j] \in {"queued", "running"}
                 /\ status'[j] = "cancelled"
            /\ stopped'.code # 200 => status'[j] = status[j] /\ progress'[j] = progress[j]
            /\ stopped'.code = 404 <=> status[j] \notin {"queued", "running"} /\ stopped'.code # 500
      ]_vars

\* a stop request for a job already terminal was answered 404
C4_Witness ==
    \E j \in JobIds : stopped = [id |-> j, code |-> 404] /\ status[j] \in {"completed", "failed"}

\* C5: a non-cycling job uploads its images in the stored order, none skipped
\* or repeated, each upload after a status re-read of its own; once completed
\* it has made exactly N uploads and N re-reads.
C5_UploadsInOrder ==
    \A j \in JobIds :
      /\ Len(uploads[j]) <= checks[j] /\ checks[j] <= Len(uploads[j]) + 1
      /\ ~settings[j].cycle =>
           /\ Len(uploads[j]) <= Len(images[j])
           /\ uploads[j] = SubSeq(images[j], 1, Len(uploads[j]))
           /\ status[j] = "completed" =>
                uploads[j] = images[j] /\ checks[j] = Len(images[j])

C5_Witness ==
    \E j \in JobIds :
      /\ ~settings[j].cycle /\ status[j] = "completed"
      /\ Len(images[j]) = MaxImages /\ uploads[j] = images[j]

\* C6: for a cycling job cancelled between the confirmation of an image and
\* the next status re-read, the worker never reaches another upload; the
\* re-read sends it to the finally block, and from then on the status stays
\* cancelled.
AfterConfirmation(j) ==
    wpc[j] \in {"interval", "sleep", "check", "catch", "finally", "finally_throw",
                "returned", "threw"}

Halted(j) == status[j] = "cancelled" /\ wpc[j] \in {"finally", "returned", "threw"}

C6_CancelBetweenImages ==
    [][\A j \in JobIds : settings[j].cycle =>
         /\ status[j] = "cancelled" /\ AfterConfirmation(j) =>
              AfterConfirmation(j)' /\ uploads'[j] = uploads[j]
         /\ status[j] = "cancelled" /\ wpc[j] = "check" /\ checks'[j] # checks[j] =>
              Halted(j)'
         /\ Halted(j) => Halted(j)']_vars

\* a cycling job, cancelled during the interval wait after the last image of
\* its first pass, halted at the re-read before image 1 of its second pass
C6_Witness ==
    \E j \in JobIds :
      /\ settings[j].cycle /\ Halted(j) /\ wpc[j] = "returned"
      /\ WaitTime(j) > 0 /\ progress[j] = CancelledMsg
      /\ pass[j] = 1 /\ checks[j] = Len(images[j]) + 1 /\ Len(uploads[j]) = Len(images[j])

\* C7: for a job in a terminal status whose worker has ended, or that never had
\* one, the deletion of each of its image files was attempted exactly once.
C7_CleanupOnce ==
    \A j \in JobIds :
      status[j] \in Terminal /\ (wpc[j] = "none" \/ Ended(j)) => unlinked[j] = images[j]

\* C8: a worker launches at most one browser, and when it has ended (by return
\* or by exception) the browser it launched has been closed, by one close call.
C8_BrowserClosed ==
    \A j \in JobIds :
      /\ closes[j] <= 1
      /\ browser[j] = "closed" <=> closes[j] = 1
      /\ Ended(j) => browser[j] # "open"

\* a worker halted at the cancellation checkpoint has closed its browser
C8_Witness ==
    \E j \in JobIds : Halted(j) /\ Ended(j) /\ browser[j] = "closed" /\ uploads[j] # <<>>

\* C9 as stated: the row a tick selects is the oldest of all queued jobs.
C9_OldestQueued ==
    [][\A t \in Ticks : rowLock[t] = 0 /\ rowLock'[t] # 0 =>
         /\ status[rowLock'[t]] = "queued"
         /\ \A k \in JobIds :
              status[k] = "queued" => created_at[rowLock'[t]] <= created_at[k]]_vars

\* C9 amended: the row a tick selects is the oldest queued job whose row no
\* other claim statement holds locked; the claim sets running and the initial
\* progress message in one step and starts the worker; a step claims at most
\* one job, and with no queued job no job changes and no worker starts.
C9_OldestUnlocked ==
    [][/\ \A t \in Ticks : rowLock[t] = 0 /\ rowLock'[t] # 0 =>
            /\ status[rowLock'[t]] = "queued"
            /\ \A u \in Ticks : rowLock[u] # rowLock'[t]
            /\ \A k \in JobIds :
                 status[k] = "queued" /\ (\A u \in Ticks : rowLock[u] # k) =>
                    created_at[rowLock'[t]] <= created_at[k]
       /\ \A j \in JobIds : status'[j] = "running" /\ status[j] # "running" =>
            /\ \E t \in Ticks : rowLock[t] = j /\ rowLock'[t] = 0
            /\ progress'[j] = StartingMsg
            /\ wpc'[j] = "connect" /\ claims'[j] = claims[j] + 1
            /\ \A k \in JobIds \ {j} : status'[k] = status[k] /\ claims'[k] = claims[k]
       /\ (\A k \in JobIds : status[k] # "queued") =>
            claims' = claims /\ (\A k \in JobIds : status'[k] # "running" \/ status[k] = "running")
      ]_vars

\* with two jobs queued, a tick holds the older one for its claim
C9_Witness ==
    \E t \in Ticks, j, k \in JobIds :
      /\ rowLock[t] = j /\ status[j] = "queued" /\ status[k] = "queued"
      /\ created_at[j] < created_at[k]

\* C10: whenever a worker has ended, by return or by exception, its job's
\* status is completed, failed or cancelled.
C10_EndedTerminal ==
    \A j \in JobIds : Ended(j) => status[j] \in Terminal

\* the portal errors for the texts a last entry can read
PortalErrors == {PortalError(l) : l \in LogTexts}

\* the worker has left the image loop by an error, a return or the end of the loop
PastLoop == {"catch", "finally", "finally_throw", "returned", "threw"}

\* C11: when the wait for a new confirmation entry fails, the error thrown is
\* the timeout error; the catch block's write (the store accepting it) sets the
\* status failed and a progress message that carries the timeout description;
\* the worker uploads no further image, and the status stays failed.
C11_ConfirmTimeout ==
    [][\A j \in JobIds :
         /\ wpc[j] = "confirm" /\ wpc'[j] = "catch" /\ progress'[j] = WaitConfirmMsg =>
              err'[j] = ConfirmTimeout
         /\ wpc[j] = "catch" /\ err[j] = ConfirmTimeout /\ wpc'[j] = "finally" =>
              /\ status'[j] = "failed"
              /\ progress'[j].text = "An error occurred: "
              /\ progress'[j].detail = ConfirmTimeout
         /\ wpc[j] \in PastLoop => wpc'[j] \in PastLoop /\ uploads'[j] = uploads[j]
         /\ status[j] = "failed" => status'[j] = "failed" /\ progress'[j] = progress[j]]_vars

\* a job of two images failed on the confirmation timeout of its first image:
\* its worker has ended and the second image was never uploaded
C11_Witness ==
    \E j \in JobIds :
      /\ Ended(j) /\ status[j] = "failed"
      /\ progress[j] = FailedMsg(ConfirmTimeout)
      /\ Len(images[j]) = 2 /\ uploads[j] = <<images[j][1]>>

\* C12: a confirmation whose last entry reads 'failed' or 'error' in any
\* letter case makes the worker throw the portal error, which the catch
\* block's write (the store accepting it) turns into status failed; no image
\* is uploaded afterwards.  The worker goes on to the interval step only with
\* an entry that has neither word, and the portal error is thrown for no
\* other entry.
C12_FailureKeyword ==
    [][\A j \in JobIds :
         /\ wpc[j] = "savelogs" /\ logs'[j] \in {LogFailed, LogErrors} =>
              wpc'[j] = "catch" /\ err'[j] = PortalError(logs'[j])
         /\ wpc[j] = "savelogs" /\ wpc'[j] = "interval" => logs'[j] = LogDone
         /\ err'[j] \in PortalErrors /\ err[j] = NoText =>
              /\ wpc[j] = "savelogs" /\ logs'[j] \in {LogFailed, LogErrors}
              /\ err'[j] = PortalError(logs'[j])
         /\ wpc[j] = "catch" /\ err[j] = PortalError(logs[j]) /\ wpc'[j] = "finally" =>
              status'[j] = "failed" /\ progress'[j] = FailedMsg(PortalError(logs'[j]))
         /\ wpc[j] \in PastLoop => wpc'[j] \in PastLoop /\ uploads'[j] = uploads[j]]_vars

\* a job of two images failed on the entry 'Upload FAILED' that confirmed its
\* first image: the entry was saved, and the second image was never uploaded
C12_Witness ==
    \E j \in JobIds :
      /\ Ended(j) /\ status[j] = "failed" /\ progress[j] = FailedMsg(PortalError(logs[j]))
      /\ logs[j] = LogFailed
      /\ Len(images[j]) = 2 /\ uploads[j] = <<images[j][1]>>

\* C13: in the click loop of any image the worker makes at most 10 attempts.
\* After k 'not clickable' failures, k < 10, it is back for attempt k + 1, and
\* an attempt that succeeds takes it to the confirmation wait; the 10th such
\* failure in a row throws the exhaustion error with no further attempt, and
\* the catch block's write (the store accepting it) sets the status failed
\* with the message the code shows for a click that could not be made.
C13_ClickRetries ==
    [][\A j \in JobIds :
         /\ attempt'[j] <= 10
         /\ wpc'[j] = "click" => attempt'[j] < 10
         /\ wpc[j] = "click" /\ attempt'[j] = attempt[j] + 1 =>
              /\ clickFault'[j] = ClickNotClickable
              /\ attempt'[j] < 10 => wpc'[j] = "click" /\ uploads'[j] = uploads[j]
              /\ attempt'[j] = 10 => wpc'[j] = "catch" /\ err'[j] = ClickExhausted
         /\ wpc[j] = "click" /\ wpc'[j] \notin {"click", "catch"} =>
              wpc'[j] = "confirm" /\ clickFault'[j] = NoText /\ attempt[j] \in 0..9
         /\ err'[j] = ClickExhausted /\ err[j] # ClickExhausted =>
              wpc[j] = "click" /\ attempt[j] = 9 /\ attempt'[j] = 10
         /\ wpc[j] = "catch" /\ err[j] = ClickExhausted /\ wpc'[j] = "finally" =>
              /\ status'[j] = "failed"
              /\ progress'[j] = FailedMsg(ClickExhausted)
              /\ progress'[j].detail = ClickHint
         /\ wpc[j] \in PastLoop => wpc'[j] \in PastLoop /\ uploads'[j] = uploads[j]]_vars

\* the click for the second image of a job has failed as not clickable ten
\* times in a row, after the click for the first image went through
C13_Witness ==
    \E j \in JobIds :
      /\ wpc[j] = "catch" /\ err[j] = ClickExhausted /\ attempt[j] = 10
      /\ Len(uploads[j]) = 2

\* C18: a click that fails with any error other than 'not clickable' is not
\* retried: the same step throws that error on, whatever the number of the
\* attempt, no click attempt follows it, and the catch block's write (the store
\* accepting it) sets the status failed with the error's message.
C18_OtherClickFailure ==
    [][\A j \in JobIds :
         /\ wpc'[j] = "click" => clickFault'[j] \in {NoText, ClickNotClickable}
         /\ wpc[j] = "click" /\ clickFault'[j] \notin {NoText, ClickNotClickable} =>
              /\ wpc'[j] = "catch" /\ err'[j] = clickFault'[j]
              /\ attempt'[j] = attempt[j]
         /\ wpc[j] = "catch" /\ err[j] = ClickDetached /\ wpc'[j] = "finally" =>
              status'[j] = "failed" /\ progress'[j].detail = ClickDetached
         /\ wpc[j] \in PastLoop =>
              wpc'[j] \in PastLoop /\ attempt'[j] <= attempt[j] /\ uploads'[j] = uploads[j]]_vars

\* the tenth click attempt for an image, after nine 'not clickable' failures,
\* failed with another error, which the worker has thrown on
C18_Witness ==
    \E j \in JobIds :
      wpc[j] = "catch" /\ err[j] = ClickDetached /\ clickFault[j] = ClickDetached /\ attempt[j] = 9

\* The step of the worker's state machine that the progress of job j reports:
\* the page reset before a later image belongs to SelectingDisplay of that
\* image, and the confirmation awaited is that of the image uploaded last.
C14_Step(j) ==
    LET m == progress[j] IN
    CASE m = StartingMsg -> <<"Claimed", 0>>
      [] m = LoginMsg -> <<"Authenticating", 0>>
      [] m.text = "Resetting page for image" -> <<"SelectingDisplay", m.n>>
      [] m.text = "Selecting display for image" -> <<"SelectingDisplay", m.n>>
      [] m.text = "Uploading image" -> <<"Uploading", m.n>>
      [] m = WaitConfirmMsg -> <<"AwaitingConfirmation", Len(uploads[j])>>
      [] m.text = "Waiting for minute(s)" -> <<"Waiting", m.n>>
      [] m = CompletedMsg -> <<"Completed", 0>>
      [] OTHER -> <<"", 0>>

C14_Steps ==
    << <<"Claimed", 0>>,
       <<"Authenticating", 0>>,
       <<"SelectingDisplay", 1>>, <<"Uploading", 1>>, <<"AwaitingConfirmation", 1>>,
       <<"Waiting", 1>>,
       <<"SelectingDisplay", 2>>, <<"Uploading", 2>>, <<"AwaitingConfirmation", 2>>,
       <<"Completed", 0>> >>

\* the job {images: [A, B], interval: 1, cycle: false}
C14_Job(j) ==
    /\ Len(images[j]) = 2
    /\ settings[j] = [interval |-> <<"1">>, cycle |-> FALSE]

\* C14: for the job {images: [A, B], interval 1, no cycle}, while it runs
\* uncancelled and unfailed, every change of its progress stays in the step
\* reported or moves to the next step of the sequence Authenticating,
\* SelectingDisplay(A), Uploading(A), AwaitingConfirmation(A), waiting 1
\* minute, SelectingDisplay(B), Uploading(B), AwaitingConfirmation(B),
\* Completed, which it enters at Authenticating after the claim; the status
\* becomes completed with the step Completed, straight from
\* AwaitingConfirmation(B).
C14_ProgressSequence ==
    [][\A j \in JobIds :
         C14_Job(j) /\ status[j] = "running" /\ status'[j] \in {"running", "completed"}
           /\ progress'[j] # progress[j] =>
              \E k \in 1..Len(C14_Steps) :
                /\ C14_Steps[k] = C14_Step(j)
                /\ \/ C14_Step(j)' = C14_Steps[k] /\ k > 1
                   \/ k < Len(C14_Steps) /\ C14_Step(j)' = C14_Steps[k + 1]
                /\ status'[j] = "completed" <=> C14_Step(j)' = <<"Completed", 0>>
                /\ status'[j] = "completed" => k = Len(C14_Steps) - 1]_vars

\* that job has completed, both images uploaded, with no stop request ever made
C14_Witness ==
    \E j \in JobIds :
      /\ C14_Job(j) /\ status[j] = "completed" /\ progress[j] = CompletedMsg
      /\ uploads[j] = images[j] /\ Ended(j)
      /\ stopped = [id |-> 0, code |-> 0]

\* C15: a tick that fails to reach the store (it ends without a claim, or the
\* server stops running on it) changes no job and starts no worker, and leaves
\* the dispatch loop running.
C15_TickFailureHarmless ==
    [][(\/ alive' # alive
        \/ \E t \in Ticks : /\ rowLock[t] # 0 /\ rowLock'[t] = 0
                            /\ claims'[rowLock[t]] = claims[rowLock[t]])
       => /\ status' = status /\ progress' = progress /\ logs' = logs
          /\ wpc' = wpc
          /\ alive']_vars

\* C16: the status re-read that finds a status other than running sends the
\* worker to the finally block in that step, with no error and nothing of the
\* job written; from then on status, progress and logs of the job stay as they
\* are, no image is uploaded, and the worker only runs its cleanup.
C16_HaltWithoutMarking ==
    [][\A j \in JobIds :
         /\ wpc[j] = "check" /\ checks'[j] = checks[j] + 1 /\ status[j] # "running" =>
              /\ wpc'[j] = "finally" /\ err'[j] = NoText
              /\ status'[j] = status[j] /\ progress'[j] = progress[j] /\ logs'[j] = logs[j]
              /\ uploads'[j] = uploads[j]
         /\ Halted(j) =>
              /\ status'[j] = status[j] /\ progress'[j] = progress[j] /\ logs'[j] = logs[j]
              /\ uploads'[j] = uploads[j] /\ checks'[j] = checks[j]
              /\ wpc'[j] \in {"finally", "returned", "threw"}
              /\ wpc[j] # "finally" => wpc'[j] = wpc[j]]_vars

\* a worker found its job cancelled at the re-read before the second image:
\* it stands at the finally block, the progress still the one the cancellation
\* wrote
C16_Witness ==
    \E j \in JobIds :
      /\ Halted(j) /\ wpc[j] = "finally" /\ progress[j] = CancelledMsg
      /\ checks[j] = 2 /\ Len(uploads[j]) = 1

\* the steps of one image iteration, after the status re-read
InIteration ==
    {"reset", "select", "upload", "click", "confirm", "savelogs", "interval", "sleep"}

\* C17: after the status re-read of an iteration the worker leaves the iteration
\* only for the next re-read, for the end of the loop or by an error, whatever
\* the status of the job: the upload step uploads the image of the iteration,
\* the interval sleep ends only by running its full length, and the worker
\* returns early from nowhere but a re-read that found the job not running.
C17_NoInterruption ==
    [][\A j \in JobIds :
         /\ wpc[j] \in InIteration =>
              wpc'[j] \in InIteration \cup {"check", "complete", "catch"}
         /\ wpc[j] = "upload" /\ wpc'[j] = "click" =>
              uploads'[j] = Append(uploads[j], images[j][i[j] + 1])
         /\ wpc[j] = "sleep" => wpc'[j] \in {"sleep", "check", "complete"}
         /\ wpc'[j] = "finally" /\ wpc[j] \notin {"finally", "catch", "complete"} =>
              /\ wpc[j] = "check" /\ checks'[j] = checks[j] + 1
              /\ status[j] # "running"]_vars

\* a job cancelled after the re-read for its first image: the worker has gone
\* on through upload, click and confirmation, has written the wait message
\* over the one of the cancellation, and is in the interval sleep
C17_Witness ==
    \E j \in JobIds :
      /\ status[j] = "cancelled" /\ wpc[j] = "sleep" /\ progress[j] = WaitMsg(1)
      /\ checks[j] = 1 /\ uploads[j] = <<images[j][1]>>

\* C19: an authentication attempt that fails takes the worker straight to the
\* catch block, with no status re-read and no upload made; the worker comes to
\* the authentication once, from its start; the catch block's write (the store
\* accepting it) sets the status failed, and neither re-read nor upload follows.
C19_AuthenticationFatal ==
    [][\A j \in JobIds :
         /\ wpc[j] = "login"
              /\ ((progress'[j] = LoginMsg /\ progress[j] # LoginMsg)
                     \/ browser'[j] # browser[j]) =>
              wpc'[j] \in {"check", "catch"}
         /\ wpc[j] = "login" /\ wpc'[j] = "catch" =>
              checks'[j] = 0 /\ uploads'[j] = <<>>
         /\ wpc'[j] = "login" /\ wpc[j] # "login" => wpc[j] = "connect" /\ claims[j] = 1
         /\ wpc[j] = "catch" /\ checks[j] = 0 /\ err[j] = BrowserError /\ wpc'[j] = "finally" =>
              status'[j] = "failed" /\ progress'[j] = FailedMsg(BrowserError)
         /\ wpc[j] \in PastLoop =>
              wpc'[j] \in PastLoop /\ checks'[j] = checks[j] /\ uploads'[j] = uploads[j]]_vars

\* a job failed on the navigation to the portal or on the login: its worker has
\* ended with the browser closed, no re-read and no upload made
C19_Witness ==
    \E j \in JobIds :
      /\ Ended(j) /\ status[j] = "failed" /\ progress[j] = FailedMsg(BrowserError)
      /\ browser[j] = "closed" /\ checks[j] = 0 /\ uploads[j] = <<>>

\* the number of minutes an interval field stands for
C20_Minutes(j) ==
    IF settings[j].interval = NoInterval THEN 0
    ELSE CHOOSE n \in 0..MaxInterval : NumeralOf(n) = settings[j].interval

C20_WaitApplies(j) ==
    C20_Minutes(j) > 0 /\ (i[j] + 1 < Len(images[j]) \/ settings[j].cycle)

\* C20: after a confirmation that succeeded the worker goes into the interval
\* sleep only if the interval is above 0 and the image is not the last one or
\* the job cycles, announcing the wait with the interval's minutes; when that
\* holds it goes nowhere but into the sleep (or, the store refusing the wait
\* message, to the catch block); the sleep is entered from nowhere else.
C20_IntervalWait ==
    [][\A j \in JobIds :
         /\ wpc[j] = "interval" /\ wpc'[j] = "sleep" =>
              C20_WaitApplies(j) /\ progress'[j] = WaitMsg(C20_Minutes(j))
         /\ wpc[j] = "interval" /\ wpc'[j] # "interval" /\ C20_WaitApplies(j) =>
              wpc'[j] \in {"sleep", "catch"}
         /\ wpc'[j] = "sleep" /\ wpc[j] # "sleep" => wpc[j] = "interval"]_vars

\* a cycling job is in the interval sleep after the last of its two images
C20_Witness ==
    \E j \in JobIds :
      /\ settings[j].cycle /\ Len(images[j]) = 2 /\ wpc[j] = "sleep" /\ i[j] = 1
      /\ progress[j] = WaitMsg(1) /\ status[j] = "running"

\* C21: a cycling job never stands at the completion step and never gets the
\* status completed; its status leaves running only for failed or cancelled;
\* each full pass it finishes sends it back to the status re-read with the
\* loop index at the first image, and the uploads go round the images in
\* order.  A non-cycling job comes to the completion step at the end of its
\* first full pass, every image uploaded once, and the status completed is
\* written from there and from nowhere else.
C21_CycleCheck ==
    [][\A j \in JobIds :
         /\ settings[j].cycle =>
              /\ status'[j] # "completed" /\ wpc'[j] # "complete"
              /\ status[j] = "running" /\ status'[j] # "running" =>
                   status'[j] \in {"failed", "cancelled"}
              /\ pass'[j] = pass[j] + 1 =>
                   /\ wpc[j] \in {"interval", "sleep"} /\ i[j] = Len(images[j]) - 1
                   /\ wpc'[j] = "check" /\ i'[j] = 0
                   /\ Len(uploads[j]) = pass'[j] * Len(images[j])
              /\ wpc[j] = "upload" /\ wpc'[j] = "click" =>
                   uploads'[j] =
                     Append(uploads[j], images[j][(Len(uploads[j]) % Len(images[j])) + 1])
         /\ ~settings[j].cycle =>
              /\ pass'[j] <= 1
              /\ wpc'[j] = "complete" /\ wpc[j] # "complete" =>
                   pass[j] = 0 /\ pass'[j] = 1 /\ uploads[j] = images[j]
              /\ pass'[j] = pass[j] + 1 => wpc'[j] = "complete"
              /\ status'[j] = "completed" /\ status[j] # "completed" =>
                   wpc[j] = "complete" /\ pass[j] = 1 /\ uploads[j] = images[j]
              /\ wpc[j] = "complete" /\ wpc'[j] # "complete" =>
                   \/ status'[j] = "completed" /\ wpc'[j] = "finally"
                   \/ wpc'[j] = "catch" /\ err'[j] = StoreError]_vars

\* a cycling job of two images is in its second pass, still running: it has
\* uploaded both images and the first one again
C21_Witness ==
    \E j \in JobIds :
      /\ settings[j].cycle /\ status[j] = "running" /\ pass[j] = 1
      /\ Len(images[j]) = 2 /\ uploads[j] = images[j] \o <<images[j][1]>>

C23_WorkerStep(j) ==
    /\ wpc[j] # "none"
    /\ \/ wpc'[j] # wpc[j]
       \/ attempt'[j] # attempt[j]
       \/ clickFault'[j] # clickFault[j]

C24_LogsPersisted ==
    [][\A j \in JobIds :
         /\ logs'[j] # logs[j] => wpc[j] = "savelogs" /\ logs'[j] \in LogTexts
         /\ wpc'[j] = "savelogs" /\ wpc[j] # "savelogs" =>
              wpc[j] = "confirm" /\ progress'[j] = WaitConfirmMsg /\ err'[j] = NoText
         /\ err'[j] \in PortalErrors /\ err[j] = NoText =>
              logs'[j] \in {LogFailed, LogErrors} /\ err'[j] = PortalError(logs'[j])
         /\ wpc[j] = "catch" /\ err[j] \in PortalErrors /\ wpc'[j] = "finally" =>
              /\ logs'[j] \in {LogFailed, LogErrors} /\ err[j] = PortalError(logs'[j])
              /\ status'[j] = "failed"
         /\ wpc[j] \in (InIteration \ {"savelogs"}) \cup {"check", "complete"} \cup PastLoop =>
              logs'[j] = logs[j]
         /\ wpc[j] = "savelogs" /\ wpc'[j] = "interval" => logs'[j] \in LogTexts]_vars

\* a job of two images failed by the portal error on its second image: logs
\* holds the text of that confirmation, in place of the first image's
C24_Witness ==
    \E j \in JobIds :
      /\ status[j] = "failed" /\ progress[j] = FailedMsg(PortalError(logs[j]))
      /\ Len(uploads[j]) = 2 /\ pass[j] = 0 /\ logs[j] = LogErrors

\* the text m has the word 'click' in it
C25_TellsOfClick(m) ==
    \E k \in 1..(Len(m) - 4) :
      m[k] = "c" /\ m[k + 1] = "l" /\ m[k + 2] = "i" /\ m[k + 3] = "c" /\ m[k + 4] = "k"

C26_CancelledQueuedNeverClaimed ==
    [][\A j \in JobIds :
         /\ status[j] = "cancelled" /\ claims[j] = 0 =>
              /\ status'[j] = "cancelled" /\ claims'[j] = 0
              /\ wpc'[j] = "none" /\ uploads'[j] = <<>>
              /\ \A t \in Ticks : rowLock'[t] # j
         /\ status'[j] = "cancelled" /\ status[j] # "cancelled" =>
              /\ \/ status[j] = "queued" /\ claims[j] = 0 /\ wpc[j] = "none" /\ ~Locked(j)
                 \/ status[j] = "running" /\ claims[j] = 1 /\ wpc[j] # "none"
              /\ progress'[j] = CancelledMsg
              /\ stopped' = [id |-> j, code |-> 200]
              /\ claims'[j] = claims[j] /\ wpc'[j] = wpc[j]
         /\ claims'[j] # claims[j] =>
              /\ status[j] = "queued" /\ status'[j] = "running"
              /\ progress'[j] = StartingMsg /\ wpc'[j] = "connect"]_vars

\* the older job was cancelled while queued and has stayed unclaimed, as it was
\* cancelled, while a tick has claimed the younger job
C26_Witness ==
    \E j, k \in JobIds :
      /\ created_at[j] < created_at[k]
      /\ status[j] = "cancelled" /\ claims[j] = 0 /\ wpc[j] = "none"
      /\ progress[j] = CancelledMsg /\ uploads[j] = <<>>
      /\ status[k] = "running" /\ claims[k] = 1

\* C27: every claimed job that does not cycle eventually has a terminal status
\* with its worker ended, the steps of the workers being scheduled fairly.
C27_EventuallyTerminal ==
    \A j \in JobIds :
      [](claims[j] = 1 /\ ~settings[j].cycle => <>(Ended(j) /\ status[j] \in Terminal))

\* positions of a worker: before a status re-read, between the re-read and the
\* upload of the iteration, and after that upload
C28_BeforeCheck == {"connect", "login", "check"}
C28_BeforeUpload == {"reset", "select", "upload"}
C28_AfterUpload == {"click", "confirm", "savelogs", "interval", "sleep"}

\* C28: a worker whose job is cancelled and which stands before a status
\* re-read never enters an iteration and uploads nothing more: a job cancelled
\* before the first re-read gets no upload at all.  One that stands between
\* the re-read and the upload of its iteration makes at most that one upload,
\* and one that has made the upload of its iteration comes to the next re-read
\* or leaves the loop without another.  Cycling or not, the worker of a
\* cancelled job eventually ends, or the server has.
C28_OneMoreUpload ==
    /\ [][\A j \in JobIds : status[j] = "cancelled" =>
            /\ wpc[j] \in C28_BeforeCheck =>
                 /\ wpc'[j] \in C28_BeforeCheck \cup PastLoop
                 /\ uploads'[j] = uploads[j]
                 /\ checks[j] = 0 => uploads'[j] = <<>>
            /\ wpc[j] \in C28_BeforeUpload =>
                 /\ wpc'[j] \in C28_BeforeUpload \cup C28_AfterUpload \cup {"catch"}
                 /\ uploads'[j] # uploads[j] =>
                      /\ Len(uploads'[j]) = Len(uploads[j]) + 1
                      /\ wpc[j] = "upload" /\ wpc'[j] \in C28_AfterUpload \cup {"catch"}
            /\ wpc[j] \in C28_AfterUpload =>
                 /\ wpc'[j] \in C28_AfterUpload \cup {"check", "complete", "catch"}
                 /\ uploads'[j] = uploads[j]
            /\ wpc[j] \in {"complete"} \cup PastLoop =>
                 /\ wpc'[j] \in {"complete"} \cup PastLoop
                 /\ uploads'[j] = uploads[j]]_vars
    /\ \A j \in JobIds :
         [](status[j] = "cancelled" /\ claims[j] = 1 => <>(Ended(j) \/ ~alive))

\* the worker of a cycling job, cancelled after the re-read for the first image
\* of its second pass, has gone on to upload that image
C28_Witness ==
    \E j \in JobIds :
      /\ settings[j].cycle /\ status[j] = "cancelled" /\ pass[j] = 1
      /\ wpc[j] = "click" /\ progress[j] = UploadingMsg(1)
      /\ Len(uploads[j]) = Len(images[j]) + 1

\* C29: every queued job is eventually running or cancelled, the ticks coming
\* for ever and their claim statements not failing for ever.  The job a tick
\* marks running is the one its statement selected, and a tick that runs its
\* statement with no other tick inside one selects the oldest of all queued
\* jobs: ticks that run one after the other claim the jobs in the order of
\* their creation.
C29_NoStarvation ==
    /\ [][/\ \A t \in Ticks :
               (/\ rowLock[t] = 0 /\ rowLock'[t] # 0
                /\ \A u \in Ticks \ {t} : rowLock[u] = 0) =>
                  \A k \in JobIds :
                    status[k] = "queued" => created_at[rowLock'[t]] <= created_at[k]
          /\ \A j \in JobIds : claims'[j] # claims[j] =>
               /\ status[j] = "queued" /\ status'[j] = "running"
               /\ \E t \in Ticks : rowLock[t] = j /\ rowLock'[t] = 0]_vars
    /\ \A j \in JobIds :
         [](status[j] = "queued" => <>(status[j] \in {"running", "cancelled"}))

\* the older job is running, and a tick, alone in its claim statement, has
\* selected the younger one
C29_Witness ==
    \E j, k \in JobIds, t \in Ticks :
      /\ created_at[j] < created_at[k] /\ status[j] = "running" /\ claims[j] = 1
      /\ status[k] = "queued" /\ rowLock[t] = k
      /\ \A u \in Ticks \ {t} : rowLock[u] = 0

\* C30: a completed job has the progress 'All images uploaded successfully.'
\* and a failed job a progress 'An error occurred: ' with the text of the
\* failure; the status and that progress are written in the same step, and
\* from then on status, progress and logs of the job stay as they are.
C30_TerminalProgress ==
    /\ [](\A j \in JobIds :
            /\ status[j] = "completed" => progress[j] = CompletedMsg
            /\ status[j] = "failed" =>
                 progress[j].text = "An error occurred: " /\ progress[j].detail # NoText)
    /\ [][\A j \in JobIds :
            /\ status'[j] = "completed" /\ status[j] # "completed" =>
                 wpc[j] = "complete" /\ progress'[j] = CompletedMsg
            /\ status'[j] = "failed" /\ status[j] # "failed" =>
                 wpc[j] = "catch" /\ progress'[j] = FailedMsg(err[j])
            /\ status[j] \in {"completed", "failed"} =>
                 /\ status'[j] = status[j] /\ progress'[j] = progress[j] /\ logs'[j] = logs[j]
                 /\ wpc'[j] \in {"finally", "returned", "threw"}]_vars

\* a job of two images has completed and its worker has ended; a stop request
\* made for it since was answered 404 and left it as it was
C30_Witness ==
    \E j \in JobIds :
      /\ status[j] = "completed" /\ progress[j] = CompletedMsg /\ Ended(j)
      /\ Len(images[j]) = 2 /\ logs[j] = LogDone
      /\ stopped = [id |-> j, code |-> 404]

\* C31: in every reachable state a job whose status is cancelled has the
\* progress written by the stop request, 'Job cancelled by user.': no progress
\* write of its worker replaces that message while the status is cancelled.
C31_CancelledProgress ==
    \A j \in JobIds : status[j] = "cancelled" => progress[j] = CancelledMsg

====
